---- MODULE Spec2Model ----
(***************************************************************************)
(* A model of qa-read: the schema builder (Read::schema), the cell caster  *)
(* (dtconv::cast_excel_type_to_polars_type) and the four readers of        *)
(* src/lib.rs (delimited text, pivot-table cache, named table, sheet       *)
(* range), each read being a sequence of steps in the order of the code.   *)
(*                                                                         *)
(* A 64-bit integer is a sequence of four 16-bit limbs, least significant  *)
(* first, in twos-complement, so that the as-casts of Rust keep their width. *)
(***************************************************************************)
EXTENDS Integers, Sequences, FiniteSets, TLC

VARIABLES
    kind,       \* the reader: "Txt", "PivotTable", "Table", "SheetRange" ("Caster": the caster alone)
    raw,        \* Comparable::schema(): the (column name, type alias) pairs
    pc,         \* position of the read in its code
    opened,     \* calamine::open_workbook has been called
    located,    \* a table / pivot table / sheet lookup has been called
    schema,     \* the resolved Schema: a sequence of [name, dtype]
    columns,    \* the column buffers: Vec<Vec<AnyValue>>
    cycle,      \* the next index (0..schema_len) cycle_columns yields
    width,      \* cells per row of the located source
    rowPos,     \* cells of the current row already consumed
    stream,     \* the data cells consumed so far, flat, in row-major order
    routes,     \* for each consumed data cell, the schema column it was routed to
    hdrCells,   \* the header cells consumed so far (pivot-table cache)
    casts,      \* the calls of the caster: <<column index, cell>> per call
    lastCast,   \* the last call of the caster: its arguments and its outcome
    result      \* the outcome of the read

vars == <<kind, raw, pc, opened, located, schema, columns, cycle, width, rowPos,
          stream, routes, hdrCells, casts, lastCast, result>>

----------------------------------------------------------------------------
(* Bounds of the model *)

\* the longest raw schema drawn
MaxCols == 3
\* the widest source row (and header row) drawn
MaxWidth == 3
\* the most data cells a read consumes
MaxCells == 4
\* the most caster calls of the caster-alone specification
MaxCalls == 2

----------------------------------------------------------------------------
(* 64-bit integers as limbs *)

Limb == 2 ^ 16

\* the i64 twos-complement limbs of the mathematical integer n, |n| < 2^31
FromInt(n) ==
    <<n % Limb, (n \div Limb) % Limb,
      IF n < 0 THEN Limb - 1 ELSE 0, IF n < 0 THEN Limb - 1 ELSE 0>>

Negative(i) == i[Len(i)] >= Limb \div 2

\* i64::MIN, i64::MAX, 2^32 + 300 and -(2^32) + 5, which no 32-bit integer holds
I64Min == <<0, 0, 0, Limb \div 2>>
I64Max == <<Limb - 1, Limb - 1, Limb - 1, (Limb \div 2) - 1>>
Big300 == <<300, 0, 1, 0>>
NegBig == <<5, 0, Limb - 1, Limb - 1>>

----------------------------------------------------------------------------
(* dtconv.rs *)

DataTypes ==
    {"Null", "Boolean", "UInt8", "UInt16", "UInt32", "UInt64", "UInt128",
     "Int8", "Int16", "Int32", "Int64", "Int128", "Float32", "Float64",
     "String", "Date"}

NotFound == "NotFound"

\* DT_CONV_MAP.get(alias): the canonical type of an alias, or NotFound
DT_CONV_MAP(alias) ==
    IF alias \in {"null", "Null", "NULL", "x", "X", "remove", "Remove"} THEN "Null"
    ELSE IF alias \in {"bool", "Bool", "Boolean", "boolean", "BOOL", "BOOLEAN"} THEN "Boolean"
    ELSE IF alias \in {"u8", "U8", "uint8", "UInt8", "UINT8", "bit", "Bit", "BIT"} THEN "UInt8"
    ELSE IF alias \in {"u16", "U16", "uint16", "UInt16", "UINT16"} THEN "UInt16"
    ELSE IF alias \in {"u32", "U32", "uint32", "UInt32", "UINT32", "Int", "INT",
                       "integer", "Integer", "INTEGER"} THEN "UInt32"
    ELSE IF alias \in {"u64", "U64", "uint64", "UInt64", "UINT64"} THEN "UInt64"
    ELSE IF alias \in {"u128", "U128", "uint128", "UInt128", "UINT128"} THEN "UInt128"
    ELSE IF alias \in {"i8", "I8", "int8", "Int8", "INT8", "tinyint", "TinyInt"} THEN "Int8"
    ELSE IF alias \in {"i16", "I16", "int16", "Int16", "INT16"} THEN "Int16"
    ELSE IF alias \in {"i32", "I32", "int32", "Int32", "INT32"} THEN "Int32"
    ELSE IF alias \in {"i64", "I64", "int64", "Int64", "INT64"} THEN "Int64"
    ELSE IF alias \in {"i128", "I128", "int128", "Int128", "INT128"} THEN "Int128"
    ELSE IF alias \in {"f32", "F32", "float32", "Float32", "FLOAT32"} THEN "Float32"
    ELSE IF alias \in {"f64", "F64", "float64", "Float64", "FLOAT64", "float", "Float",
                       "FLOAT", "decimal", "Decimal", "DECIMAL"} THEN "Float64"
    ELSE IF alias \in {"str", "Str", "string", "String", "STRING", "TEXT"} THEN "String"
    ELSE IF alias \in {"date", "Date", "DATE"} THEN "Date"
    ELSE NotFound

\* calamine::Data
EmptyCell == [t |-> "Empty", v |-> <<>>]
IntCell(i) == [t |-> "Int", v |-> i]
FloatCell(f) == [t |-> "Float", v |-> <<f>>]
StringCell(s) == [t |-> "String", v |-> <<s>>]
BoolCell(b) == [t |-> "Bool", v |-> <<b>>]
\* a date-time cell of the given serial day; NoDate: one as_datetime() yields None for
DateTimeCell(serial) == [t |-> "DateTime", v |-> <<serial>>]
NoDateCell == [t |-> "DateTime", v |-> <<>>]
ErrorCell(e) == [t |-> "Error", v |-> <<e>>]
\* the variants cast_excel_type_to_polars_type has no arm for
DateTimeIsoCell == [t |-> "DateTimeIso", v |-> <<"2024-01-15T00:00:00">>]
DurationIsoCell == [t |-> "DurationIso", v |-> <<"PT1H">>]

\* polars AnyValue
NullValue == [t |-> "Null", v |-> <<>>]
AnyValue(t, v) == [t |-> t, v |-> v]

IntWidth(dtype) ==
    CASE dtype \in {"UInt8", "Int8"} -> 8
      [] dtype \in {"UInt16", "Int16"} -> 16
      [] dtype \in {"UInt32", "Int32"} -> 32
      [] dtype \in {"UInt64", "Int64"} -> 64
      [] dtype \in {"UInt128", "Int128"} -> 128
      [] OTHER -> 0

\* an as-cast that saturates at the bounds of the narrow types and does not extend the sign
AsCastSaturating(i, w) ==
    IF w = 8 THEN (IF i[2] = 0 /\ i[3] = 0 /\ i[4] = 0 /\ i[1] < 256 THEN <<i[1]>> ELSE <<255>>)
    ELSE IF w = 16 THEN (IF i[2] = 0 /\ i[3] = 0 /\ i[4] = 0 THEN <<i[1]>> ELSE <<Limb - 1>>)
    ELSE IF w = 32 THEN SubSeq(i, 1, 2)
    ELSE IF w = 64 THEN i
    ELSE i \o <<0, 0, 0, 0>>

\* (i as uW) and (i as iW) of an i64: the low W bits, sign-extended when W > 64
AsCast(i, w) ==
    IF w = 8 THEN <<i[1] % 256>>
    ELSE IF w = 16 THEN <<i[1]>>
    ELSE IF w = 32 THEN SubSeq(i, 1, 2)
    ELSE IF w = 64 THEN i
    ELSE i \o [k \in 1..4 |-> IF Negative(i) THEN Limb - 1 ELSE 0]

IsZero(i) == \A k \in 1..Len(i) : i[k] = 0

Outcome(status, errKind, column) == [status |-> status, kind |-> errKind, column |-> column]

\* the arm Data::Int(i) => match dtype of cast_excel_type_to_polars_type
CastInt(i, dtype, column) ==
    IF IntWidth(dtype) > 0
    THEN Outcome("Ok", "", Append(column, AnyValue(dtype, AsCast(i, IntWidth(dtype)))))
    ELSE IF dtype = "Boolean"
    THEN Outcome("Ok", "", Append(column, AnyValue("Boolean", <<~IsZero(i)>>)))
    ELSE IF dtype \in {"Float32", "Float64"}
    \* the float nearest to i, written as the integer it was converted from
    THEN Outcome("Ok", "", Append(column, AnyValue(dtype, i)))
    ELSE Outcome("Panic", "MismatchedIntType", column)

\* a caster whose Error arm returns the error instead of a null
CastExcelErrorFails(value, dtype, column) ==
    CASE value.t \in {"Empty"} -> Outcome("Ok", "", Append(column, NullValue))
      [] value.t = "Int" -> CastInt(value.v, dtype, column)
      [] value.t = "Float" -> Outcome("Ok", "", Append(column, AnyValue("Float64", value.v)))
      [] value.t = "String" -> Outcome("Ok", "", Append(column, AnyValue("StringOwned", value.v)))
      [] value.t = "Bool" -> Outcome("Ok", "", Append(column, AnyValue("Boolean", value.v)))
      [] value.t = "DateTime" ->
            IF value.v # <<>>
            THEN Outcome("Ok", "", Append(column, AnyValue("Date", <<value.v[1] - 25569>>)))
            ELSE Outcome("Ok", "", Append(column, NullValue))
      [] OTHER -> Outcome("Err", "fmt::Error", column)

\* cast_excel_type_to_polars_type(value, dtype, &mut column): the outcome and the buffer after
cast_excel_type_to_polars_type(value, dtype, column) ==
    CASE value.t = "Empty" -> Outcome("Ok", "", Append(column, NullValue))
      [] value.t = "Int" -> CastInt(value.v, dtype, column)
      [] value.t = "Float" -> Outcome("Ok", "", Append(column, AnyValue("Float64", value.v)))
      [] value.t = "String" -> Outcome("Ok", "", Append(column, AnyValue("StringOwned", value.v)))
      [] value.t = "Bool" -> Outcome("Ok", "", Append(column, AnyValue("Boolean", value.v)))
      [] value.t = "DateTime" ->
            \* dt.as_datetime().map(|val| val.date()), then date.to_epoch_days():
            \* serial day 25569 is 1970-01-01
            IF value.v # <<>>
            THEN Outcome("Ok", "", Append(column, AnyValue("Date", <<value.v[1] - 25569>>)))
            ELSE Outcome("Ok", "", Append(column, NullValue))
      [] value.t = "Error" -> Outcome("Ok", "", Append(column, NullValue))
      [] OTHER -> Outcome("Err", "fmt::Error", column)

----------------------------------------------------------------------------
(* lib.rs: the schema builder *)

Names == <<"A", "B", "C", "D">>

\* the aliases drawn for a raw schema: one outside DT_CONV_MAP among them
Aliases == {"u32", "str", "x", "bogus"}

\* the raw schemas drawn: column j is named Names[j], so names are unique
RawSchemas ==
    UNION {{[j \in 1..n |-> <<Names[j], a[j]>>] : a \in [1..n -> Aliases]} : n \in 0..MaxCols}

\* Schema::insert: replaces the type of a name already present, appends otherwise
SchemaInsert(s, name, dtype) ==
    IF \E j \in 1..Len(s) : s[j].name = name
    THEN [j \in 1..Len(s) |-> IF s[j].name = name THEN [name |-> name, dtype |-> dtype] ELSE s[j]]
    ELSE Append(s, [name |-> name, dtype |-> dtype])

RECURSIVE InsertAll(_, _)
InsertAll(s, pairs) ==
    IF pairs = <<>> THEN s
    ELSE InsertAll(SchemaInsert(s, pairs[1][1], DT_CONV_MAP(pairs[1][2])), Tail(pairs))

\* what a failure reports: its status, its kind, and the column names its message carries
Failure(status, errKind, named) ==
    [status |-> status, kind |-> errKind, named |-> named, frame |-> <<>>]

NoResult == [status |-> "None", kind |-> "", named |-> <<>>, frame |-> <<>>]

Frame(cols) == [status |-> "Ok", kind |-> "", named |-> <<>>, frame |-> cols]

\* Read::schema: the resolved schema, or the failure; unwrap() of a failed lookup
\* panics with a message that carries neither the column nor the alias
Schema(rawSchema) ==
    IF rawSchema = <<>>
    THEN [res |-> Failure("Err", "Read failed due to empty provided schema", <<>>), schema |-> <<>>]
    ELSE IF \E j \in 1..Len(rawSchema) : DT_CONV_MAP(rawSchema[j][2]) = NotFound
    THEN [res |-> Failure("Panic", "unwrap on None", <<>>),
          schema |-> <<>>]
    ELSE [res |-> NoResult, schema |-> InsertAll(<<>>, rawSchema)]

----------------------------------------------------------------------------
(* lib.rs: the readers *)

Kinds == {"Txt", "PivotTable", "Table", "SheetRange"}

\* the data cells a source yields
ReadCells == {IntCell(FromInt(1)), StringCell("x"), EmptyCell, ErrorCell("#DIV/0!"), DateTimeIsoCell}

\* the cells a pivot-table cache yields in its first row
HeaderCells == {StringCell(Names[j]) : j \in 1..MaxCols} \cup {IntCell(FromInt(1))}

N == Len(schema)

Min(a, b) == IF a < b THEN a ELSE b

\* if dtype == &DataType::Null { continue; } of the three cell loops
SkipNever(dtype) == FALSE

SkipCell(dtype) == dtype = "Null"

\* whether the frame engine takes a buffered value into a column of type dt as it is
Matches(value, dt) ==
    \/ value.t = "Null"
    \/ value.t = dt
    \/ value.t = "StringOwned" /\ dt = "String"

\* Series::new(name, values).cast(&dt): the values of the column
SeriesCast(values, dt) ==
    [i \in 1..Len(values) |->
        IF Matches(values[i], dt) THEN values[i] ELSE [t |-> "EngineCast", v |-> <<>>]]

Castable(values, dt) == \A i \in 1..Len(values) : Matches(values[i], dt)

\* an assembler that keeps the ignored columns
RECURSIVE ZipFrameAll(_, _, _)
ZipFrameAll(s, cols, j) ==
    IF j > Min(Len(s), Len(cols)) THEN <<>>
    ELSE <<[name |-> s[j].name, dtype |-> s[j].dtype, values |-> SeriesCast(cols[j], s[j].dtype)]>>
         \o ZipFrameAll(s, cols, j + 1)

\* the frame of: for ((name, dt), values) in schema.into_iter().zip(columns.into_iter())
RECURSIVE ZipFrame(_, _, _)
ZipFrame(s, cols, j) ==
    IF j > Min(Len(s), Len(cols)) THEN <<>>
    ELSE (IF s[j].dtype = "Null" THEN <<>>
          ELSE <<[name |-> s[j].name, dtype |-> s[j].dtype,
                  values |-> SeriesCast(cols[j], s[j].dtype)]>>)
         \o ZipFrame(s, cols, j + 1)

\* whether every Series::new(..).cast(..) of the zip is sure to succeed
ZipCastable(s, cols) ==
    \A j \in 1..Min(Len(s), Len(cols)) : s[j].dtype = "Null" \/ Castable(cols[j], s[j].dtype)

RECURSIVE SelectNonNull(_, _)
\* the columns lf.select(ignore_columns) keeps: those whose type is not Null
SelectNonNull(s, j) ==
    IF j > Len(s) THEN <<>>
    ELSE (IF s[j].dtype = "Null" THEN <<>>
          ELSE <<[name |-> s[j].name, dtype |-> s[j].dtype, values |-> <<>>]>>)
         \o SelectNonNull(s, j + 1)

\* the frame of the empty pivot table: every schema column, cast to its type
EmptyFrame(s) == [j \in 1..Len(s) |-> [name |-> s[j].name, dtype |-> s[j].dtype, values |-> <<>>]]

NoCast == [called |-> FALSE, value |-> EmptyCell, dtype |-> "Null", before |-> <<>>,
           after |-> <<>>, status |-> "None"]

Init ==
    /\ kind \in Kinds
    /\ raw \in RawSchemas
    /\ pc = "start"
    /\ opened = FALSE
    /\ located = FALSE
    /\ schema = <<>>
    /\ columns = <<>>
    /\ cycle = 0
    /\ width = 0
    /\ rowPos = 0
    /\ stream = <<>>
    /\ routes = <<>>
    /\ hdrCells = <<>>
    /\ casts = <<>>
    /\ lastCast = NoCast
    /\ result = NoResult

Finish(r) == /\ pc' = "done"
             /\ result' = r

\* self.schema()? : the schema, or the read ends with its failure
ResolveSchema(next) ==
    LET s == Schema(raw) IN
    IF s.res.status = "None"
    THEN /\ schema' = s.schema
         /\ pc' = next
         /\ UNCHANGED result
    ELSE /\ Finish(s.res)
         /\ UNCHANGED schema

\* the variables of the cell loops
loopVars == <<columns, cycle, width, rowPos, stream, routes, hdrCells, casts, lastCast>>

(* The delimited-text reader *)

\* let schema = self.schema()?;
TxtSchema ==
    /\ kind = "Txt"
    /\ pc = "start"
    /\ ResolveSchema("csv")
    /\ UNCHANGED <<kind, raw, opened, located, loopVars>>

\* LazyCsvReader::new(..)...finish().map(|lf| lf.select(ignore_columns)): the path may have
\* no text form and the engine may fail; the values of the lazy frame are not read here
TxtFinish ==
    /\ kind = "Txt"
    /\ pc = "csv"
    /\ \E out \in {"Ok", "Invalid file path", "PolarsError"} :
          Finish(IF out = "Ok" THEN Frame(SelectNonNull(schema, 1)) ELSE Failure("Err", out, <<>>))
    /\ UNCHANGED <<kind, raw, opened, located, schema, loopVars>>

(* The three workbook readers: open, lookup and schema, in the order of each reader *)

\* calamine::open_workbook(file)? and, pivot table only, wb.pivot_tables()?
Open ==
    /\ kind \in {"PivotTable", "Table", "SheetRange"}
    /\ pc = "start"
    /\ opened' = TRUE
    /\ \E ok \in BOOLEAN :
          IF ok
          THEN /\ pc' = (IF kind = "SheetRange" THEN "schema" ELSE IF kind = "Table" THEN "locate"
                         ELSE "pivot_tables")
               /\ UNCHANGED result
          ELSE Finish(Failure("Err", "IoFailure", <<>>))
    /\ UNCHANGED <<kind, raw, located, schema, loopVars>>

\* let pivot_tables = wb.pivot_tables()?;
PivotTables ==
    /\ kind = "PivotTable"
    /\ pc = "pivot_tables"
    /\ \E ok \in BOOLEAN :
          IF ok
          THEN pc' = "schema" /\ UNCHANGED result
          ELSE Finish(Failure("Err", "IoFailure", <<>>))
    /\ UNCHANGED <<kind, raw, opened, located, schema, loopVars>>

\* let schema = self.schema()?; with cycle_columns and columns created right after
PivotSchema ==
    /\ kind = "PivotTable"
    /\ pc = "schema"
    /\ ResolveSchema("locate")
    /\ UNCHANGED <<kind, raw, opened, located, loopVars>>

\* wb.pivot_table_data(&pivot_tables, &meta.0, &meta.1).map_err(..)?
PivotLocate ==
    /\ kind = "PivotTable"
    /\ pc = "locate"
    /\ located' = TRUE
    /\ \E ok \in BOOLEAN :
          IF ok
          THEN pc' = "first" /\ UNCHANGED result
          ELSE Finish(Failure("Err", "SourceNotFound", <<>>))
    /\ UNCHANGED <<kind, raw, opened, schema, loopVars>>

\* if let Some(headers) = rows.next() { for header in headers? ... } else { empty frame }
PivotFirst ==
    /\ kind = "PivotTable"
    /\ pc = "first"
    /\ \E out \in {"None", "Err", "Some"} :
          CASE out = "None" -> Finish(Frame(EmptyFrame(schema)))
            [] out = "Err" -> Finish(Failure("Err", "IoFailure", <<>>))
            [] OTHER -> pc' = "header" /\ UNCHANGED result
    /\ UNCHANGED <<kind, raw, opened, located, schema, loopVars>>

\* one turn of the header loop: the next cycle index, the comparison with the name of
\* that schema column, and the push of a buffer
HeaderCell ==
    /\ kind = "PivotTable"
    /\ pc = "header"
    /\ Len(hdrCells) < MaxWidth
    /\ \E header \in HeaderCells :
          LET column == cycle
              name == schema[column + 1].name
          IN /\ cycle' = (cycle + 1) % N
             /\ hdrCells' = Append(hdrCells, header)
             /\ IF StringCell(name) # header
                THEN /\ Finish(Failure("Panic", "HeaderMismatch", <<name>>))
                     /\ UNCHANGED columns
                ELSE /\ columns' = Append(columns, <<>>)
                     /\ UNCHANGED <<pc, result>>
    /\ UNCHANGED <<kind, raw, opened, located, schema, width, rowPos, stream, routes, casts,
                   lastCast>>

\* the header row, of at least one cell, is exhausted: each later row has as many cells
\* as the header
HeaderEnd ==
    /\ kind = "PivotTable"
    /\ pc = "header"
    /\ hdrCells # <<>>
    /\ pc' = "rows"
    /\ width' = Len(hdrCells)
    /\ UNCHANGED <<kind, raw, opened, located, schema, columns, cycle, rowPos, stream, routes,
                   hdrCells, casts, lastCast, result>>

\* let tables = wb.table_by_name(meta.as_str())?; the table has rows of some width
TableLocate ==
    /\ kind = "Table"
    /\ pc = "locate"
    /\ located' = TRUE
    /\ \E ok \in BOOLEAN, w \in 1..MaxWidth :
          IF ok
          THEN /\ pc' = "schema"
               /\ width' = w
               /\ UNCHANGED result
          ELSE /\ Finish(Failure("Err", "SourceNotFound", <<>>))
               /\ UNCHANGED width
    /\ UNCHANGED <<kind, raw, opened, schema, columns, cycle, rowPos, stream, routes, hdrCells,
                   casts, lastCast>>

\* let schema = self.schema()?; columns = Vec::with_capacity(..) holds no buffer; the
\* data range of a table has at least one row
TableSchema ==
    /\ kind = "Table"
    /\ pc = "schema"
    /\ ResolveSchema("cells")
    /\ UNCHANGED <<kind, raw, opened, located, loopVars>>

\* let schema = self.schema()?; columns = Vec::with_capacity(..) holds no buffer
RangeSchema ==
    /\ kind = "SheetRange"
    /\ pc = "schema"
    /\ ResolveSchema("locate")
    /\ UNCHANGED <<kind, raw, opened, located, loopVars>>

\* wb.worksheet_range(meta.0.as_str())?.range(meta.1, meta.2): a block of at least one cell
RangeLocate ==
    /\ kind = "SheetRange"
    /\ pc = "locate"
    /\ located' = TRUE
    /\ \E ok \in BOOLEAN, w \in 1..MaxWidth :
          IF ok
          THEN /\ pc' = "cells"
               /\ width' = w
               /\ UNCHANGED result
          ELSE /\ Finish(Failure("Err", "SourceNotFound", <<>>))
               /\ UNCHANGED width
    /\ UNCHANGED <<kind, raw, opened, schema, columns, cycle, rowPos, stream, routes, hdrCells,
                   casts, lastCast>>

(* The cell loop, the same in the three workbook readers *)

\* the row iterator yields one more row
NextRow ==
    /\ kind \in {"PivotTable", "Table", "SheetRange"}
    /\ pc = "rows"
    /\ width > 0
    /\ Len(stream) + width <= MaxCells
    /\ pc' = "cells"
    /\ rowPos' = 0
    /\ UNCHANGED <<kind, raw, opened, located, schema, columns, cycle, width, stream, routes,
                   hdrCells, casts, lastCast, result>>

\* for data in rows { for value in data?.iter() .. }: a row of the pivot cache fails
PivotRowErr ==
    /\ kind = "PivotTable"
    /\ pc = "rows"
    /\ Finish(Failure("Err", "IoFailure", <<>>))
    /\ UNCHANGED <<kind, raw, opened, located, schema, loopVars>>

\* one turn of the inner loop: the next cycle index, the skip of an ignored column, the
\* index into columns (a panic when no such buffer exists) and the call of the caster
DataCell ==
    /\ kind \in {"PivotTable", "Table", "SheetRange"}
    /\ pc = "cells"
    /\ \E value \in ReadCells :
          LET column == cycle
              dtype == schema[column + 1].dtype
              more == IF rowPos + 1 = width THEN "rows" ELSE "cells"
          IN /\ cycle' = (cycle + 1) % N
             /\ stream' = Append(stream, value)
             /\ routes' = Append(routes, column)
             /\ rowPos' = rowPos + 1
             /\ IF SkipCell(dtype)
                THEN /\ pc' = more
                     /\ UNCHANGED <<columns, casts, lastCast, result>>
                ELSE IF column >= Len(columns)
                THEN /\ Finish(Failure("Panic", "IndexOutOfBounds", <<>>))
                     /\ UNCHANGED <<columns, casts, lastCast>>
                ELSE LET r == cast_excel_type_to_polars_type(value, dtype, columns[column + 1])
                     IN /\ casts' = Append(casts, <<column, value>>)
                        /\ lastCast' = [called |-> TRUE, value |-> value, dtype |-> dtype,
                                        before |-> columns[column + 1], after |-> r.column,
                                        status |-> r.status]
                        /\ columns' = [columns EXCEPT ![column + 1] = r.column]
                        /\ IF r.status = "Ok"
                           THEN pc' = more /\ UNCHANGED result
                           ELSE Finish(Failure(r.status, r.kind, <<>>))
    /\ UNCHANGED <<kind, raw, opened, located, schema, width, hdrCells>>

\* the rows are exhausted: the frame of the zip of schema and columns; a buffer the
\* engine cannot take as it is may be cast, or fail the read
Assemble ==
    /\ kind \in {"PivotTable", "Table", "SheetRange"}
    /\ pc = "rows"
    /\ \E out \in (IF ZipCastable(schema, columns) THEN {"Ok"} ELSE {"Ok", "Err", "Panic"}) :
          Finish(IF out = "Ok" THEN Frame(ZipFrame(schema, columns, 1))
                 ELSE Failure(out, "PolarsError", <<>>))
    /\ UNCHANGED <<kind, raw, opened, located, schema, loopVars>>

Next ==
    \/ TxtSchema
    \/ TxtFinish
    \/ Open
    \/ PivotTables
    \/ PivotSchema
    \/ PivotLocate
    \/ PivotFirst
    \/ HeaderCell
    \/ HeaderEnd
    \/ TableLocate
    \/ TableSchema
    \/ RangeSchema
    \/ RangeLocate
    \/ NextRow
    \/ PivotRowErr
    \/ DataCell
    \/ Assemble

Spec == Init /\ [][Next]_vars

----------------------------------------------------------------------------
(* The caster alone: calls of cast_excel_type_to_polars_type on one buffer, for every     *)
(* target type and every kind of cell, each call made as the readers make it.             *)

\* the integers drawn, as mathematical integers: around the bounds of the narrow types
SmallInts ==
    {0, 1, -1, 44, 127, 128, -128, -129, 255, 256, 300, -300, 32767, 32768, -32769,
     65535, 65536, 65836, -65536, 2147483647, -2147483647}

\* the integer cells drawn: the small ones and four that need more than 32 bits
IntInputs == {FromInt(n) : n \in SmallInts} \cup {I64Min, I64Max, Big300, NegBig}

\* the cells drawn: every variant of calamine::Data
CastCells ==
    {IntCell(i) : i \in IntInputs} \cup
    {EmptyCell, FloatCell("2.5"), StringCell("x"), BoolCell(TRUE), BoolCell(FALSE),
     DateTimeCell(45306), NoDateCell, ErrorCell("#DIV/0!"), DateTimeIsoCell, DurationIsoCell}

CastInit ==
    /\ kind = "Caster"
    /\ raw = <<>>
    /\ pc = "cast"
    /\ opened = FALSE
    /\ located = FALSE
    /\ schema \in {<<[name |-> "A", dtype |-> d]>> : d \in DataTypes}
    /\ columns = << <<>> >>
    /\ cycle = 0
    /\ width = 1
    /\ rowPos = 0
    /\ stream = <<>>
    /\ routes = <<>>
    /\ hdrCells = <<>>
    /\ casts = <<>>
    /\ lastCast = NoCast
    /\ result = NoResult

\* dtconv::cast_excel_type_to_polars_type(value, dtype, &mut columns[column])?
CastCall ==
    /\ kind = "Caster"
    /\ pc = "cast"
    /\ Len(columns[1]) < MaxCalls
    /\ \E value \in CastCells :
          LET dtype == schema[1].dtype
              r == cast_excel_type_to_polars_type(value, dtype, columns[1])
          IN /\ casts' = Append(casts, <<0, value>>)
             /\ lastCast' = [called |-> TRUE, value |-> value, dtype |-> dtype,
                             before |-> columns[1], after |-> r.column, status |-> r.status]
             /\ columns' = <<r.column>>
             /\ IF r.status = "Ok"
                THEN UNCHANGED <<pc, result>>
                ELSE Finish(Failure(r.status, r.kind, <<>>))
    /\ UNCHANGED <<kind, raw, opened, located, schema, cycle, width, rowPos, stream, routes,
                   hdrCells>>

CastNext == CastCall

CastSpec == CastInit /\ [][CastNext]_vars

----------------------------------------------------------------------------
(* The claims *)

Workbook == kind \in {"PivotTable", "Table", "SheetRange"}

Failed == result.status \in {"Err", "Panic"}

\* the header row that echoes the schema: one text cell per column, in order
HeaderEcho == [j \in 1..N |-> StringCell(schema[j].name)]

FrameNames(f) == [j \in 1..Len(f) |-> f[j].name]

FrameTypes(f) == [j \in 1..Len(f) |-> f[j].dtype]

\* the value the caster appends for a cell, when it appends one
CastValue(value, dtype) == cast_excel_type_to_polars_type(value, dtype, <<>>).column[1]

\* the cell needs no incompatible cast into a column of that type
Compatible(value, dtype) ==
    \/ dtype = "Null"
    \/ /\ cast_excel_type_to_polars_type(value, dtype, <<>>).status = "Ok"
       /\ Matches(CastValue(value, dtype), dtype)

\* the cast values of cells (0,j), (1,j), ... of the rows read so far, j counted from 1
ExpectedColumn(j) ==
    [r \in 1..(Len(stream) \div N) |-> CastValue(stream[(r - 1) * N + j], schema[j].dtype)]

\* C1: a named-table or sheet-range read of a rectangular block of at least one row of
\* N cells, none needing an incompatible cast, does not fail, has a buffer for every
\* schema column while cells are routed, and ends with a frame whose column j holds the
\* cast values of the cells (0,j), (1,j), ... in row order.
C1_RectangularBlockRead ==
    (/\ kind \in {"Table", "SheetRange"}
     /\ schema # <<>>
     /\ width = N
     /\ stream # <<>>
     /\ \A k \in 1..Len(stream) : Compatible(stream[k], schema[((k - 1) % N) + 1].dtype))
    => /\ ~Failed
       /\ Len(columns) = N
       /\ pc = "done" =>
            /\ result.status = "Ok"
            /\ \A j \in 1..N : schema[j].dtype # "Null" =>
                  \E c \in 1..Len(result.frame) :
                     /\ result.frame[c].name = schema[j].name
                     /\ result.frame[c].values = ExpectedColumn(j)

\* C2: in every workbook reader the data cell at flat position k (from 0 at the first
\* data cell, after the header row) is routed to schema column k mod N.
C2_RoutedModN ==
    Workbook => \A k \in 1..Len(routes) : routes[k] = (k - 1) % N

\* C3: in every workbook read, the caster is never called for a cell routed to an ignored
\* column, the buffer of an ignored column (if it exists) stays empty, and a cell routed
\* to an ignored column never fails the read, whatever the cell.
C3_IgnoredNeverCast ==
    Workbook =>
       /\ \A c \in 1..Len(casts) : schema[casts[c][1] + 1].dtype # "Null"
       /\ lastCast.called => lastCast.dtype # "Null"
       /\ \A j \in 1..Len(columns) :
             (j <= N /\ schema[j].dtype = "Null") => Len(columns[j]) = 0
       /\ (routes # <<>> /\ schema[routes[Len(routes)] + 1].dtype = "Null")
             => result.kind \notin {"fmt::Error", "IndexOutOfBounds", "MismatchedIntType"}

\* C3 witness: an unrecognized cell was routed to an ignored column, another column was
\* cast into, and the read returned a frame.
C3_Witness ==
    /\ kind = "PivotTable"
    /\ result.status = "Ok"
    /\ casts # <<>>
    /\ \E k \in 1..Len(stream) :
          stream[k] = DateTimeIsoCell /\ schema[routes[k] + 1].dtype = "Null"

\* C4: every read that returns a frame returns one whose column names are the schema
\* names with the ignored entries removed, in schema order.
C4_FrameColumnsAreNonIgnored ==
    (kind \in Kinds /\ result.status = "Ok")
    => FrameNames(result.frame) = FrameNames(SelectNonNull(schema, 1))

\* the pivot-table read ended after a header row that echoes the schema and no data row
HeaderOnlyRead ==
    /\ kind = "PivotTable"
    /\ pc = "done"
    /\ schema # <<>>
    /\ hdrCells = HeaderEcho
    /\ stream = <<>>
    /\ result.kind # "IoFailure"

\* C5 as stated: a pivot-table read of a header row only returns a frame of zero rows
\* whose columns are all the columns of the declared schema, each with its declared
\* type, and no cell is cast.
C5_HeaderOnlyFullSchema ==
    HeaderOnlyRead =>
       /\ result.status = "Ok"
       /\ FrameNames(result.frame) = [j \in 1..N |-> schema[j].name]
       /\ FrameTypes(result.frame) = [j \in 1..N |-> schema[j].dtype]
       /\ \A c \in 1..Len(result.frame) : result.frame[c].values = <<>>
       /\ casts = <<>>

\* C5 as amended: a pivot-table read of a header row only returns a frame of zero rows
\* whose columns are the non-ignored columns of the declared schema, in schema order,
\* each with its declared type, and no cell is cast.
C5_HeaderOnlyNonIgnored ==
    HeaderOnlyRead =>
       /\ result.status = "Ok"
       /\ FrameNames(result.frame) = FrameNames(SelectNonNull(schema, 1))
       /\ FrameTypes(result.frame) = FrameTypes(SelectNonNull(schema, 1))
       /\ \A c \in 1..Len(result.frame) : result.frame[c].values = <<>>
       /\ casts = <<>>

\* C5 witness: a header-only read of a schema with an ignored and a non-ignored column
\* has returned.
C5_Witness ==
    /\ HeaderOnlyRead
    /\ result.status = "Ok"
    /\ \E i, j \in 1..N : schema[i].dtype = "Null" /\ schema[j].dtype # "Null"

UnknownAliasColumns == {j \in 1..Len(raw) : DT_CONV_MAP(raw[j][2]) = NotFound}

\* the read ended at the schema builder
EndedAtSchema ==
    /\ pc = "done"
    /\ schema = <<>>
    /\ result.kind \notin {"IoFailure", "SourceNotFound"}

\* C6: the schema builder fails with the empty-schema error on an empty list, fails with
\* a failure that names the column on a list with an alias outside the alias table, and
\* in neither case resolves any schema (no partial schema, no default type).
C6_SchemaFailures ==
    /\ (raw = <<>> \/ UnknownAliasColumns # {}) => schema = <<>>
    /\ (raw = <<>> /\ EndedAtSchema) =>
          result.status = "Err" /\ result.kind = "Read failed due to empty provided schema"
    /\ (UnknownAliasColumns # {} /\ EndedAtSchema) =>
          /\ Failed
          /\ \E j \in UnknownAliasColumns :
                \E n \in 1..Len(result.named) : result.named[n] = raw[j][1]

Unrecognized(value) ==
    value.t \notin {"Empty", "Int", "Float", "String", "Bool", "DateTime", "Error"}

\* what holds right after a call of the caster
CasterOutcome ==
    /\ lastCast.called
    /\ (lastCast.value.t \in {"Empty", "Error"} \/ lastCast.value = NoDateCell) =>
          /\ lastCast.status = "Ok"
          /\ lastCast.after = lastCast.before \o <<NullValue>>
          /\ ~Failed
          /\ pc # "done"
    /\ lastCast.status = "Err" <=> Unrecognized(lastCast.value)
    /\ lastCast.status = "Err" =>
          /\ lastCast.after = lastCast.before
          /\ pc = "done"
          /\ result.status = "Err"
          /\ result.frame = <<>>

\* C7: per call of the caster, for every target type: an Empty cell, an Error cell and a
\* DateTime cell with no derivable date each append exactly one null and succeed, and
\* the read goes on; the call returns an error exactly when the cell is of an
\* unrecognized variant, and then nothing is appended and the read ends with that error.
C7_CasterOutcome == [][casts' # casts => CasterOutcome']_vars

\* C7 witness: after an Error cell had appended a null, an unrecognized cell ended the
\* read of a Date column with an error.
C7_Witness ==
    /\ lastCast.called
    /\ lastCast.dtype = "Date"
    /\ lastCast.before = <<NullValue>>
    /\ lastCast.value = DurationIsoCell
    /\ casts[1][2] = ErrorCell("#DIV/0!")
    /\ result.status = "Err"

\* digit k (from 0) of the mathematical integer n in base 2^16, its twos-complement
\* expansion being infinite to the left
RECURSIVE Digit(_, _)
Digit(n, k) == IF k = 0 THEN n % Limb ELSE Digit(n \div Limb, k - 1)

\* i mod 2^w, as the limbs of a w-bit value, for a mathematical integer n
ModPow2(n, w) ==
    IF w = 8 THEN <<n % 256>> ELSE [k \in 1..(w \div 16) |-> Digit(n, k - 1)]

\* the w-bit pattern r read as unsigned and as signed, for w of 8 or 16
Unsigned(r) == r[1]
Signed(r, w) == IF r[1] >= 2 ^ (w - 1) THEN r[1] - 2 ^ w ELSE r[1]

\* C8: the caster on an Integer cell: for an integer target of width w the appended value
\* is i modulo 2^w in the representation of the target; for Boolean it is (i # 0); for a
\* target that is neither integer, Boolean nor float the call is fatal and appends nothing.
C8_IntegerCast ==
    (lastCast.called /\ lastCast.value.t = "Int") =>
       LET i == lastCast.value.v
           d == lastCast.dtype
           w == IntWidth(d)
           appended == lastCast.after[Len(lastCast.after)]
       IN /\ w > 0 =>
                /\ lastCast.status = "Ok"
                /\ Len(lastCast.after) = Len(lastCast.before) + 1
                /\ SubSeq(lastCast.after, 1, Len(lastCast.before)) = lastCast.before
                /\ appended.t = d
                /\ Len(appended.v) = (IF w = 8 THEN 1 ELSE w \div 16)
                \* congruent to i modulo 2^w: the low bits are those of i
                /\ \A k \in 1..Len(appended.v) :
                      appended.v[k] = (IF k <= 4 THEN (IF w = 8 THEN i[k] % 256 ELSE i[k])
                                       ELSE IF Negative(i) THEN Limb - 1 ELSE 0)
                \* and, where i is a small integer n, the value is n mod 2^w
                /\ \A n \in SmallInts : i = FromInt(n) =>
                      /\ appended.v = ModPow2(n, w)
                      /\ (d \in {"UInt8", "UInt16"}) => Unsigned(appended.v) = n % (2 ^ w)
                      /\ (d \in {"Int8", "Int16"}) =>
                            /\ Signed(appended.v, w) \in -(2 ^ (w - 1))..(2 ^ (w - 1) - 1)
                            /\ Signed(appended.v, w) % (2 ^ w) = n % (2 ^ w)
          /\ d = "Boolean" =>
                /\ lastCast.status = "Ok"
                /\ lastCast.after = lastCast.before \o <<AnyValue("Boolean", <<i # FromInt(0)>>)>>
          /\ (w = 0 /\ d \notin {"Boolean", "Float32", "Float64"}) =>
                /\ lastCast.status = "Panic"
                /\ lastCast.after = lastCast.before
                /\ pc = "done"
                /\ result.status = "Panic"

\* C8 witness: Integer 300 was cast to an unsigned 8-bit target and 44 was appended.
C8_Witness ==
    /\ lastCast.called
    /\ lastCast.value = IntCell(FromInt(300))
    /\ lastCast.dtype = "UInt8"
    /\ lastCast.after = lastCast.before \o <<AnyValue("UInt8", <<44>>)>>

\* C9: a pivot-table read casts data cells, or returns a frame after a header row, only
\* if the header row echoes the schema exactly, one header cell per schema column; a
\* header cell that differs ends the read with the header-mismatch failure.
C9_HeaderValidated ==
    kind = "PivotTable" =>
       /\ casts # <<>> => hdrCells = HeaderEcho
       /\ (result.status = "Ok" /\ hdrCells # <<>>) => hdrCells = HeaderEcho
       /\ (\E h \in 1..Len(hdrCells) : hdrCells[h] # StringCell(schema[((h - 1) % N) + 1].name))
             => /\ pc = "done"
                /\ result.kind = "HeaderMismatch"
                /\ casts = <<>>

\* C10: in the workbook readers the workbook is opened and the source looked up only
\* after the schema has been resolved; a read of an empty schema fails with the schema
\* error without the workbook being opened or the source looked up.
C10_SchemaBeforeSource ==
    Workbook =>
       /\ (opened \/ located) => schema # <<>>
       /\ (raw = <<>> /\ pc = "done") =>
             /\ result.kind = "Read failed due to empty provided schema"
             /\ ~opened
             /\ ~located

====
